---- MODULE Spec2Model ----
(***************************************************************************)
(* The fetch-and-parse pipeline of src/app.py: fetch_page, parse_content,  *)
(* parse_item, parse (asyncio.gather over the stubs of one listing page),  *)
(* scrape (the loop over pages), and fetch_json / get_trending_keywords.   *)
(*                                                                         *)
(* A text (Python str) is a sequence of one-character strings.  An         *)
(* optional value (a node or attribute that css_first / attrs may not      *)
(* find) is None == <<>> or Some(x) == <<x>>.                              *)
(***************************************************************************)
EXTENDS Integers, Sequences, FiniteSets, TLC

\* ------------------------------------------------------------------ bounds
\* Largest value of the `pages` query parameter a request is made with.
MaxPages == 2
\* Largest number of <article> nodes on one listing page.
MaxStubs == 2
\* Largest number of entries of the trending feed's topKeywordSearch.
MaxFeed == 2

\* ------------------------------------------------------- program constants
\* status_code of the HTTPException raised on httpx.TimeoutException.
TimeoutStatus == 504

None == <<>>
Some(x) == <<x>>

\* search_url of scrape and api_url of trending_keywords (opaque names).
search_url == "https://www.detik.com/search/searchall?"
api_url == "https://explore-api.detik.com/trending"

\* "No content available."
NoContentAvailable ==
    << "N","o"," ","c","o","n","t","e","n","t"," ",
       "a","v","a","i","l","a","b","l","e","." >>
\* "No description"
NoDescription ==
    << "N","o"," ","d","e","s","c","r","i","p","t","i","o","n" >>

\* ------------------------------------------------------------ str methods
\* The characters str.strip() removes (those that occur in the model).
Whitespace == {" ", "\n", "\t"}

RECURSIVE LStrip(_)
LStrip(s) ==
    IF s # <<>> /\ Head(s) \in Whitespace THEN LStrip(Tail(s)) ELSE s

RECURSIVE RStrip(_)
RStrip(s) ==
    IF s # <<>> /\ s[Len(s)] \in Whitespace
    THEN RStrip(SubSeq(s, 1, Len(s) - 1))
    ELSE s

\* str.strip()
Strip(s) == RStrip(LStrip(s))

\* sep.join(parts)
RECURSIVE Join(_, _)
Join(sep, parts) ==
    IF parts = <<>> THEN <<>>
    ELSE IF Len(parts) = 1 THEN parts[1]
    ELSE parts[1] \o sep \o Join(sep, Tail(parts))

\* ------------------------------------------------------------- exceptions
\* An exception value: its class, and for HTTPException its status_code and
\* the url its detail names ("" when the detail names none).
Exc(cls, code, url) == [cls |-> cls, status_code |-> code, url |-> url]
Raised(e) == [ok |-> FALSE, exc |-> e, val |-> <<>>]
Returned(v) == [ok |-> TRUE, exc |-> Exc("", 0, ""), val |-> v]

\* ---------------------------------------------------------------- upstream
\* What the upstream does with one GET: no answer within the timeout
\* (httpx.TimeoutException), another transport failure (httpx.ConnectError
\* and the like, not a TimeoutException), or a response with a status code
\* and a body.
NoEv == [kind |-> "none", status |-> 0, body |-> <<>>]
Timeout == [kind |-> "timeout", status |-> 0, body |-> <<>>]
Transport == [kind |-> "transport", status |-> 0, body |-> <<>>]
Response(status, body) == [kind |-> "response", status |-> status, body |-> body]

\* httpx's Response.is_success
IsSuccess(status) == 200 <= status /\ status < 300


\* ------------------------------------------------------------- documents
\* An HTML body as selectolax sees it: whether the text is empty (`not html`),
\* the nodes parser.css("article") yields, and the texts of the nodes
\* parser.css("div.detail__body-text > p") yields, in document order.
Html(articles, paragraphs) ==
    [empty |-> FALSE, articles |-> articles, paragraphs |-> paragraphs]
EmptyHtml == [empty |-> TRUE, articles |-> <<>>, paragraphs |-> <<>>]

\* An <article> node: what css_first finds in it.
\*   title : None, or Some(text of h3.media__title)
\*   date  : None (no ".media__date > span"), Some(None) (the span has no
\*           title attribute), or Some(Some(text))
\*   link  : None (no <a>), Some(None) (no href), or Some(Some(url))
\*   desc  : None, or Some(text of div.media__desc)
Stub(title, date, link, desc) ==
    [title |-> title, date |-> date, link |-> link, desc |-> desc]

\* A decoded JSON value.
JNull == [type |-> "null", val |-> <<>>]
JObject(f) == [type |-> "object", val |-> f]
JArray(s) == [type |-> "array", val |-> s]
JString(s) == [type |-> "string", val |-> s]
\* A response body for fetch_json: text that response.json() can decode to
\* `val`, or cannot decode.
JsonBody(val) == [json |-> TRUE, val |-> val]
NotJson == [json |-> FALSE, val |-> JNull]

\* ------------------------------------------------------------- fetch_page
\* Mutant of fetch_page: a timeout is swallowed and None is returned, which
\* parse and HTMLParser treat as an empty document.
fetch_page_SwallowTimeout(url, ev) ==
    IF ev.kind = "timeout" THEN Returned(EmptyHtml)
    ELSE IF ev.kind = "transport"
    THEN Raised(Exc("TransportError", 0, ""))
    ELSE Returned(ev.body)

\* fetch_page(url, params, headers) given what the upstream does with its
\* GET.  client.get raises httpx.TimeoutException on a timeout (handled,
\* line 28), raises other transport errors (no handler, they propagate),
\* and returns every response it receives whatever its status: nothing
\* calls response.raise_for_status(), so the HTTPStatusError handler of
\* line 32 is never entered.
fetch_page(url, ev) ==
    IF ev.kind = "timeout"
    THEN Raised(Exc("HTTPException", TimeoutStatus, url))
    ELSE IF ev.kind = "transport"
    THEN Raised(Exc("TransportError", 0, ""))
    ELSE Returned(ev.body)

\* Mutant of fetch_json: no handler for httpx.TimeoutException.
fetch_json_TimeoutUnhandled(url, ev) ==
    IF ev.kind = "timeout"
    THEN Raised(Exc("TimeoutException", 0, ""))
    ELSE IF ev.kind = "transport"
    THEN Raised(Exc("TransportError", 0, ""))
    ELSE IF ~ev.body.json
    THEN Raised(Exc("JSONDecodeError", 0, ""))
    ELSE Returned(ev.body.val)

\* fetch_json(url, headers): as fetch_page, with response.json() in place
\* of response.text.
fetch_json(url, ev) ==
    IF ev.kind = "timeout"
    THEN Raised(Exc("HTTPException", TimeoutStatus, url))
    ELSE IF ev.kind = "transport"
    THEN Raised(Exc("TransportError", 0, ""))
    ELSE IF ~ev.body.json
    THEN Raised(Exc("JSONDecodeError", 0, ""))
    ELSE Returned(ev.body.val)

\* ---------------------------------------------------------- parse_content
\* Mutant of parse_content: the join is returned whatever its length.
parse_content_NoSentinel(url, ev) ==
    LET html == fetch_page(url, ev)
    IN  IF ~html.ok THEN html
        ELSE Returned(Join(<<"\n">>, html.val.paragraphs))

parse_content(url, ev) ==
    LET html == fetch_page(url, ev)
    IN  IF ~html.ok THEN html
        ELSE LET paragraphs == html.val.paragraphs
             IN  Returned(IF paragraphs # <<>>
                          THEN Join(<<"\n">>, paragraphs)
                          ELSE NoContentAvailable)

\* ------------------------------------------------------------- parse_item
\* Mutant of parse_item_fields: the description is read as the title is.
parse_item_fields_DescRequired(result) ==
    IF result.title = None THEN Raised(Exc("AttributeError", 0, ""))
    ELSE IF result.date = None THEN Raised(Exc("AttributeError", 0, ""))
    ELSE IF result.date[1] = None THEN Raised(Exc("KeyError", 0, ""))
    ELSE IF result.link = None THEN Raised(Exc("AttributeError", 0, ""))
    ELSE IF result.link[1] = None THEN Raised(Exc("KeyError", 0, ""))
    ELSE IF result.desc = None THEN Raised(Exc("AttributeError", 0, ""))
    ELSE Returned([title |-> result.title[1],
                   date  |-> result.date[1][1],
                   url   |-> result.link[1][1],
                   desc  |-> result.desc[1]])

\* Mutant of parse_item_fields: a node without title element gets the empty
\* title in place of the failure.
parse_item_fields_TitleOptional(result) ==
    IF result.date = None THEN Raised(Exc("AttributeError", 0, ""))
    ELSE IF result.date[1] = None THEN Raised(Exc("KeyError", 0, ""))
    ELSE IF result.link = None THEN Raised(Exc("AttributeError", 0, ""))
    ELSE IF result.link[1] = None THEN Raised(Exc("KeyError", 0, ""))
    ELSE Returned([title |-> IF result.title # None
                             THEN result.title[1]
                             ELSE <<>>,
                   date  |-> result.date[1][1],
                   url   |-> result.link[1][1],
                   desc  |-> IF result.desc # None
                             THEN result.desc[1]
                             ELSE NoDescription])

\* Mutant of parse_item_fields: a node without date, or whose date has no
\* title attribute, gets the empty date in place of the failure.
parse_item_fields_DateOptional(result) ==
    IF result.title = None THEN Raised(Exc("AttributeError", 0, ""))
    ELSE IF result.link = None THEN Raised(Exc("AttributeError", 0, ""))
    ELSE IF result.link[1] = None THEN Raised(Exc("KeyError", 0, ""))
    ELSE Returned([title |-> result.title[1],
                   date  |-> IF result.date # None /\ result.date[1] # None
                             THEN result.date[1][1]
                             ELSE "",
                   url   |-> result.link[1][1],
                   desc  |-> IF result.desc # None
                             THEN result.desc[1]
                             ELSE NoDescription])

\* Lines 44-48: the reads made before the content fetch is awaited.
parse_item_fields(result) ==
    IF result.title = None THEN Raised(Exc("AttributeError", 0, ""))
    ELSE IF result.date = None THEN Raised(Exc("AttributeError", 0, ""))
    ELSE IF result.date[1] = None THEN Raised(Exc("KeyError", 0, ""))
    ELSE IF result.link = None THEN Raised(Exc("AttributeError", 0, ""))
    ELSE IF result.link[1] = None THEN Raised(Exc("KeyError", 0, ""))
    ELSE Returned([title |-> result.title[1],
                   date  |-> result.date[1][1],
                   url   |-> result.link[1][1],
                   desc  |-> IF result.desc # None
                             THEN result.desc[1]
                             ELSE NoDescription])

\* Lines 50-56: the record built once parse_content has returned.
parse_item_return(f, content) ==
    [title   |-> Strip(f.title),
     url     |-> f.url,
     date    |-> f.date,
     desc    |-> Strip(f.desc),
     content |-> content]

\* ------------------------------------------------- get_trending_keywords
\* `not json_data`
Falsy(j) ==
    \/ j.type = "null"
    \/ j.type = "object" /\ DOMAIN j.val = {}
    \/ j.type = "array" /\ Len(j.val) = 0

\* `key in container` for a decoded dict or list; a TypeError for None.
Contains(j, key) ==
    IF j.type = "object" THEN Returned(key \in DOMAIN j.val)
    ELSE IF j.type = "array"
    THEN Returned(\E k \in 1..Len(j.val) :
                     j.val[k].type = "string" /\ j.val[k].val = key)
    ELSE Raised(Exc("TypeError", 0, ""))

\* [item["keyword"] for item in feed]
RECURSIVE Keywords(_)
Keywords(feed) ==
    IF feed = <<>> THEN Returned(<<>>)
    ELSE IF Head(feed).type # "object"
    THEN Raised(Exc("TypeError", 0, ""))
    ELSE IF "keyword" \notin DOMAIN Head(feed).val
    THEN Raised(Exc("KeyError", 0, ""))
    ELSE LET rest == Keywords(Tail(feed))
         IN  IF ~rest.ok THEN rest
             ELSE Returned(<<Head(feed).val.keyword>> \o rest.val)

get_trending_keywords(url, ev) ==
    LET json_data == fetch_json(url, ev)
    IN  IF ~json_data.ok THEN json_data
        ELSE IF Falsy(json_data.val) THEN Returned(<<>>)
        ELSE LET hasBody == Contains(json_data.val, "body")
             IN  IF ~hasBody.ok THEN hasBody
                 ELSE IF ~hasBody.val THEN Returned(<<>>)
                 ELSE IF json_data.val.type # "object"
                 THEN Raised(Exc("TypeError", 0, ""))
                 ELSE LET body == json_data.val.val.body
                          hasFeed == Contains(body, "topKeywordSearch")
                      IN  IF ~hasFeed.ok THEN hasFeed
                          ELSE IF ~hasFeed.val THEN Returned(<<>>)
                          ELSE IF body.type # "object"
                               \/ body.val.topKeywordSearch.type # "array"
                          THEN Raised(Exc("TypeError", 0, ""))
                          ELSE Keywords(body.val.topKeywordSearch.val)


\* ------------------------------------------------------------------ state
VARIABLES
    request,         \* the request being served: kind, keyword, pages
    pc,              \* where the handler is suspended
    page,            \* scrape's loop variable
    all_items,       \* scrape's accumulator
    listing,         \* what the upstream did with the current listing GET
    search_results,  \* parse's article nodes of the current page
    tasks,           \* the parse_item tasks gather runs, one per node
    gather_exc,      \* the exception gather's future holds: the first raised
    completion,      \* the current gather's task indices, in completion order
    pagesDone,       \* per completed page: its nodes and its article answers
    json_ev,         \* what the upstream did with the trending GET
    gets,            \* every GET issued, in order
    clients,         \* the httpx.AsyncClient instances that are open
    outcome          \* what the caller of the request has received

vars == << request, pc, page, all_items, listing, search_results, tasks,
           gather_exc, completion, pagesDone, json_ev, gets, clients, outcome >>

\* The headers scrape and trending_keywords send.
UserAgent == {<<"User-Agent", "Mozilla/5.0">>}

Pending == [tag |-> "pending", body |-> <<>>, exc |-> Exc("", 0, "")]
\* The handler returned `body`: FastAPI serialises it as the JSON array.
Array(body) == [tag |-> "array", body |-> body, exc |-> Exc("", 0, "")]
\* The handler raised `e`: FastAPI answers an HTTPException with its
\* status_code and detail, and anything else with a bare 500.
Failure(e) == [tag |-> "raised", body |-> <<>>, exc |-> e]

\* A task of gather: "created", "fetching" (suspended in client.get),
\* "returned" or "raised"; the upstream's answer to its GET; its result.
Task(st, ev, res) == [st |-> st, ev |-> ev, res |-> res]
NoResult == Raised(Exc("", 0, ""))

\* One GET: its url, params and headers, and the client that issued it
\* (<<page, 0>> for the listing fetch of a page, <<page, i>> for the content
\* fetch of its i-th node, <<0, 0>> for the trending fetch).
Get(url, params, headers, by) ==
    [url |-> url, params |-> params, headers |-> headers, by |-> by]

ScrapeRequest(keyword, pages) ==
    [kind |-> "scrape", keyword |-> keyword, pages |-> pages]
TrendingRequest == [kind |-> "trending", keyword |-> "", pages |-> 0]

\* The state as the handler is entered.
Start(req) ==
    /\ request = req
    /\ pc = IF req.kind = "scrape" THEN "for" ELSE "trending"
    /\ page = 0
    /\ all_items = <<>>
    /\ listing = NoEv
    /\ search_results = <<>>
    /\ tasks = <<>>
    /\ gather_exc = None
    /\ completion = <<>>
    /\ pagesDone = <<>>
    /\ json_ev = NoEv
    /\ gets = <<>>
    /\ clients = {}
    /\ outcome = Pending

\* ----------------------------------------------------------------- scrape
\* Lines 111-113: the loop takes the next page number and parse issues the
\* listing GET through fetch_page.
ScrapeNextPage ==
    /\ pc = "for"
    /\ page < request.pages
    /\ page' = page + 1
    /\ gets' = Append(gets, Get(search_url,
                                {<<"query", request.keyword>>, <<"page", page + 1>>},
                                UserAgent, <<page + 1, 0>>))
    /\ clients' = clients \cup {<<page + 1, 0>>}
    /\ listing' = NoEv
    /\ pc' = "fetch_listing"
    /\ UNCHANGED << request, all_items, search_results, tasks, gather_exc,
                    completion, pagesDone, json_ev, outcome >>

\* Line 115: the loop is exhausted.
ScrapeReturn ==
    /\ pc = "for"
    /\ page >= request.pages
    /\ outcome' = Array(all_items)
    /\ pc' = "done"
    /\ UNCHANGED << request, page, all_items, listing, search_results, tasks,
                    gather_exc, completion, pagesDone, json_ev, gets, clients >>

\* ------------------------------------------------------------------ parse
\* Mutant of parse: a listing page without text or article node is an error.
parse_RaiseOnEmpty(html) ==
    IF ~html.ok THEN "raise"
    ELSE IF html.val.empty THEN "raise"
    ELSE IF html.val.articles = <<>> THEN "raise"
    ELSE "gather"

\* What parse does once its listing fetch has ended (lines 60-65): "raise",
\* "empty" (return [] at line 62, or gather of no coroutine), or "gather".
parse(html) ==
    IF ~html.ok THEN "raise"
    ELSE IF html.val.empty THEN "empty"
    ELSE IF html.val.articles = <<>> THEN "empty"
    ELSE "gather"

\* Mutant of ListingDone: a listing GET that fails is issued once more
\* before the failure is raised.
ListingDone_RetryOnce(ev) ==
    /\ pc = "fetch_listing"
    /\ IF /\ ev.kind \in {"timeout", "transport"}
          /\ Cardinality({k \in 1..Len(gets) : gets[k].by = <<page, 0>>}) = 1
       THEN /\ gets' = Append(gets, gets[Len(gets)])
            /\ UNCHANGED << pc, listing, clients, outcome, search_results,
                            tasks, pagesDone >>
       ELSE /\ listing' = ev
            /\ clients' = clients \ {<<page, 0>>}
            /\ LET html == fetch_page(search_url, ev)
                   todo == parse(html)
               IN  /\ pc' = CASE todo = "raise" -> "done"
                              [] todo = "empty" -> "for"
                              [] OTHER -> "gather"
                   /\ outcome' = IF todo = "raise" THEN Failure(html.exc)
                                 ELSE outcome
                   /\ search_results' = IF todo = "gather"
                                        THEN html.val.articles ELSE <<>>
                   /\ tasks' = IF todo = "gather"
                               THEN [i \in 1..Len(html.val.articles) |->
                                        Task("created", NoEv, NoResult)]
                               ELSE <<>>
                   /\ pagesDone' = IF todo = "empty"
                                   THEN Append(pagesDone,
                                               [stubs |-> <<>>, answers |-> <<>>])
                                   ELSE pagesDone
            /\ UNCHANGED gets
    /\ gather_exc' = None
    /\ completion' = <<>>
    /\ UNCHANGED << request, page, all_items, json_ev >>

\* The listing fetch of the current page ends with `ev`.
ListingDone(ev) ==
    /\ pc = "fetch_listing"
    /\ listing' = ev
    /\ clients' = clients \ {<<page, 0>>}
    /\ LET html == fetch_page(search_url, ev)
           todo == parse(html)
       IN  /\ pc' = CASE todo = "raise" -> "done"
                      [] todo = "empty" -> "for"
                      [] OTHER -> "gather"
           /\ outcome' = IF todo = "raise" THEN Failure(html.exc) ELSE outcome
           /\ search_results' = IF todo = "gather" THEN html.val.articles ELSE <<>>
           /\ tasks' = IF todo = "gather"
                       THEN [i \in 1..Len(html.val.articles) |->
                                Task("created", NoEv, NoResult)]
                       ELSE <<>>
           /\ pagesDone' = IF todo = "empty"
                           THEN Append(pagesDone, [stubs |-> <<>>, answers |-> <<>>])
                           ELSE pagesDone
    /\ gather_exc' = None
    /\ completion' = <<>>
    /\ UNCHANGED << request, page, all_items, json_ev, gets >>

\* The event loop runs the tasks gather created in the order it created
\* them, each up to its first suspension, before it polls any I/O.
NextToStart == CHOOSE i \in 1..Len(tasks) :
                  /\ tasks[i].st = "created"
                  /\ \A j \in 1..(i - 1) : tasks[j].st # "created"
AllStarted == \A i \in 1..Len(tasks) : tasks[i].st # "created"

\* gather's future takes the first exception a task raises.
FirstException(e) == IF gather_exc = None THEN Some(e) ELSE gather_exc

\* parse_item up to `await parse_content(url)`: the reads of lines 44-48,
\* then fetch_page opens its client and issues the GET.
StartItem ==
    /\ ~AllStarted
    /\ LET i == NextToStart
           f == parse_item_fields(search_results[i])
       IN  IF f.ok
           THEN /\ tasks' = [tasks EXCEPT ![i].st = "fetching"]
                /\ gets' = Append(gets, Get(f.val.url, {}, {}, <<page, i>>))
                /\ clients' = clients \cup {<<page, i>>}
                /\ UNCHANGED << gather_exc, completion >>
           ELSE /\ tasks' = [tasks EXCEPT ![i] = Task("raised", NoEv, f)]
                /\ gather_exc' = FirstException(f.exc)
                /\ completion' = Append(completion, i)
                /\ UNCHANGED << gets, clients >>
    /\ UNCHANGED << request, pc, page, all_items, listing, search_results,
                    pagesDone, json_ev, outcome >>

\* Mutant of ContentDone: the client is closed only when the fetch returns.
ContentDone_LeakOnError(i, ev) ==
    /\ AllStarted
    /\ i \in 1..Len(tasks)
    /\ tasks[i].st = "fetching"
    /\ completion' = Append(completion, i)
    /\ LET f == parse_item_fields(search_results[i]).val
           content == parse_content(f.url, ev)
       IN  IF content.ok
           THEN /\ tasks' = [tasks EXCEPT ![i] =
                       Task("returned", ev,
                            Returned(parse_item_return(f, content.val)))]
                /\ clients' = clients \ {<<page, i>>}
                /\ UNCHANGED gather_exc
           ELSE /\ tasks' = [tasks EXCEPT ![i] = Task("raised", ev, content)]
                /\ gather_exc' = FirstException(content.exc)
                /\ UNCHANGED clients
    /\ UNCHANGED << request, pc, page, all_items, listing, search_results,
                    pagesDone, json_ev, gets, outcome >>

\* The content fetch of task i ends with `ev`: the client is closed, and
\* parse_item returns its record or raises what parse_content raised.
ContentDone(i, ev) ==
    /\ AllStarted
    /\ i \in 1..Len(tasks)
    /\ tasks[i].st = "fetching"
    /\ clients' = clients \ {<<page, i>>}
    /\ completion' = Append(completion, i)
    /\ LET f == parse_item_fields(search_results[i]).val
           content == parse_content(f.url, ev)
       IN  IF content.ok
           THEN /\ tasks' = [tasks EXCEPT ![i] =
                       Task("returned", ev,
                            Returned(parse_item_return(f, content.val)))]
                /\ UNCHANGED gather_exc
           ELSE /\ tasks' = [tasks EXCEPT ![i] = Task("raised", ev, content)]
                /\ gather_exc' = FirstException(content.exc)
    /\ UNCHANGED << request, pc, page, all_items, listing, search_results,
                    pagesDone, json_ev, gets, outcome >>

\* Mutant of GatherResult: the results in the order the tasks completed.
GatherResult_AsCompleted ==
    [k \in 1..Len(completion) |-> tasks[completion[k]].res.val]

\* The list gather returns: the tasks' results in the order of its arguments.
GatherResult == [i \in 1..Len(tasks) |-> tasks[i].res.val]

\* Mutants of Extend: the page's items put in front, and the accumulator
\* overwritten.
Extend_Prepend(acc, items) == items \o acc
Extend_Overwrite(acc, items) == items

\* Line 114: all_items.extend(items)
Extend(acc, items) == acc \o items

\* Mutant of GatherReturn: the tasks are started and not awaited; parse
\* returns the results that are there once the tasks have been started.
GatherReturn_NoJoin ==
    /\ pc = "gather"
    /\ AllStarted
    /\ gather_exc = None
    /\ all_items' = Extend(all_items,
            [k \in 1..Cardinality({i \in 1..Len(tasks) : tasks[i].st = "returned"})
                |-> tasks[CHOOSE i \in 1..Len(tasks) : tasks[i].st = "returned"].res.val])
    /\ pagesDone' = Append(pagesDone,
                           [stubs |-> search_results,
                            answers |-> [i \in 1..Len(tasks) |-> tasks[i].ev]])
    /\ pc' = "for"
    /\ search_results' = <<>>
    /\ tasks' = <<>>
    /\ completion' = <<>>
    /\ UNCHANGED << request, page, listing, gather_exc, json_ev, gets,
                    clients, outcome >>

\* Line 65 then 113-114: every task has returned, gather returns their
\* results, parse returns them and scrape extends all_items.
GatherReturn ==
    /\ pc = "gather"
    /\ \A i \in 1..Len(tasks) : tasks[i].st = "returned"
    /\ all_items' = Extend(all_items, GatherResult)
    /\ pagesDone' = Append(pagesDone,
                           [stubs |-> search_results,
                            answers |-> [i \in 1..Len(tasks) |-> tasks[i].ev]])
    /\ pc' = "for"
    /\ search_results' = <<>>
    /\ tasks' = <<>>
    /\ completion' = <<>>
    /\ UNCHANGED << request, page, listing, gather_exc, json_ev, gets,
                    clients, outcome >>

\* Mutant of GatherRaise: the failed tasks are dropped and the records of
\* the others are returned, once every task has ended.
GatherRaise_Partial ==
    /\ pc = "gather"
    /\ AllStarted
    /\ gather_exc # None
    /\ \A i \in 1..Len(tasks) : tasks[i].st # "fetching"
    /\ LET done == SelectSeq(tasks, LAMBDA t : t.st = "returned")
       IN  all_items' = Extend(all_items,
                               [k \in 1..Len(done) |-> done[k].res.val])
    /\ pc' = "for"
    /\ search_results' = <<>>
    /\ tasks' = <<>>
    /\ completion' = <<>>
    /\ UNCHANGED << request, page, listing, gather_exc, pagesDone, json_ev,
                    gets, clients, outcome >>

\* Mutant of GatherRaise: the tasks still fetching are cancelled and their
\* clients closed when the exception is raised.
GatherRaise_CancelSiblings ==
    /\ pc = "gather"
    /\ AllStarted
    /\ gather_exc # None
    /\ outcome' = Failure(gather_exc[1])
    /\ pc' = "done"
    /\ tasks' = [i \in 1..Len(tasks) |->
                    IF tasks[i].st = "fetching"
                    THEN Task("raised", NoEv,
                              Raised(Exc("CancelledError", 0, "")))
                    ELSE tasks[i]]
    /\ clients' = {}
    /\ UNCHANGED << request, page, all_items, listing, search_results,
                    gather_exc, completion, pagesDone, json_ev, gets >>

\* gather raises the first exception in parse, which raises it in scrape,
\* which raises it to the caller.  The other tasks are left running.
GatherRaise ==
    /\ pc = "gather"
    /\ AllStarted
    /\ gather_exc # None
    /\ outcome' = Failure(gather_exc[1])
    /\ pc' = "done"
    /\ UNCHANGED << request, page, all_items, listing, search_results, tasks,
                    gather_exc, completion, pagesDone, json_ev, gets, clients >>

\* ------------------------------------------------------ trending_keywords
\* Lines 94-98 and 82: fetch_json opens its client and issues the GET.
TrendingFetch ==
    /\ pc = "trending"
    /\ gets' = Append(gets, Get(api_url, {}, UserAgent, <<0, 0>>))
    /\ clients' = clients \cup {<<0, 0>>}
    /\ pc' = "fetch_json"
    /\ UNCHANGED << request, page, all_items, listing, search_results, tasks,
                    gather_exc, completion, pagesDone, json_ev, outcome >>

\* The trending fetch ends with `ev` and get_trending_keywords finishes.
JsonDone(ev) ==
    /\ pc = "fetch_json"
    /\ json_ev' = ev
    /\ clients' = clients \ {<<0, 0>>}
    /\ LET keywords == get_trending_keywords(api_url, ev)
       IN  outcome' = IF keywords.ok THEN Array(keywords.val)
                      ELSE Failure(keywords.exc)
    /\ pc' = "done"
    /\ UNCHANGED << request, page, all_items, listing, search_results, tasks,
                    gather_exc, completion, pagesDone, gets >>


\* ----------------------------------------------------------------- inputs
\* The sequences over S of length at most n.
SeqsUpTo(S, n) == UNION {[1..k -> S] : k \in 0..n}

\* Well-formed nodes: one with a description to trim, one without any.
StubA == Stub(Some(<<" ", "a", " ">>), Some(Some(<<"d", "1">>)),
              Some(Some("/u1")), Some(<<" ", "b", " ", "c", "\n">>))
StubB == Stub(Some(<<"t">>), Some(Some(<<"d", "2">>)),
              Some(Some("/u2")), None)
\* A description of white space only.
StubC == Stub(Some(<<"t">>), Some(Some(<<"d", "3">>)),
              Some(Some("/u1")), Some(<<" ">>))
\* Malformed nodes: no title, no date span, no title attribute on the
\* span, no <a>, no href.
StubNoTitle == [StubA EXCEPT !.title = None]
StubNoDate == [StubA EXCEPT !.date = None]
StubNoDateAttr == [StubB EXCEPT !.date = Some(None)]
StubNoLink == [StubA EXCEPT !.link = None]
StubNoHref == [StubB EXCEPT !.link = Some(None)]

\* Article pages: two paragraphs, one empty paragraph, no paragraph.
ArticleTwo == Html(<<>>, << <<"p", " ">>, <<"q">> >>)
ArticleBlank == Html(<<>>, << <<>> >>)
ArticleNone == Html(<<>>, <<>>)

\* The requests, nodes and upstream answers of Spec: requests of up to
\* MaxPages pages and the trending request, against a site with few
\* different nodes and articles.
Requests ==
    {ScrapeRequest(k, n) : k \in {"k1", "k2"}, n \in 1..MaxPages}
        \cup {TrendingRequest}
Stubs == {StubA, StubB, StubNoTitle}
ListingEvents ==
    {Timeout, Transport, Response(200, EmptyHtml), Response(404, ArticleNone)}
        \cup {Response(200, Html(s, <<>>)) : s \in SeqsUpTo(Stubs, MaxStubs)}
ArticleEvents == {Timeout, Response(200, ArticleTwo)}

Entry(k) == JObject([keyword |-> JString(k)])
Feeds == SeqsUpTo({Entry(<<"a">>), Entry(<<"b">>), JObject(<<>>)}, MaxFeed)
JsonEvents ==
    {Timeout, Transport, Response(200, NotJson), Response(200, JsonBody(JNull)),
     Response(200, JsonBody(JObject(<<>>))),
     Response(200, JsonBody(JObject([body |-> JNull]))),
     Response(200, JsonBody(JObject([body |-> JObject(<<>>)]))),
     Response(500, JsonBody(JObject([error |-> JString(<<"e">>)])))}
        \cup {Response(200, JsonBody(JObject(
                  [body |-> JObject([topKeywordSearch |-> JArray(f)])]))) :
              f \in Feeds}

\* The same of SpecPage: the request with the default `pages` (line 104),
\* against a site with every kind of node and article.
PageRequests == {ScrapeRequest("k1", 1)}
PageStubs == {StubA, StubB, StubC, StubNoTitle, StubNoDate, StubNoDateAttr,
              StubNoLink, StubNoHref}
PageListingEvents ==
    {Timeout, Transport, Response(200, EmptyHtml)}
        \cup {Response(c, Html(s, <<>>)) :
              c \in {200, 404}, s \in SeqsUpTo(PageStubs, MaxStubs)}
PageArticleEvents ==
    {Timeout, Transport, Response(200, ArticleTwo), Response(200, ArticleBlank),
     Response(200, ArticleNone), Response(404, ArticleNone),
     Response(500, ArticleTwo)}

\* ---------------------------------------------------------- specifications
Init == \E req \in Requests : Start(req)

Next ==
    \/ ScrapeNextPage
    \/ ScrapeReturn
    \/ \E ev \in ListingEvents : ListingDone(ev)
    \/ StartItem
    \/ \E i \in 1..MaxStubs, ev \in ArticleEvents : ContentDone(i, ev)
    \/ GatherReturn
    \/ GatherRaise
    \/ TrendingFetch
    \/ \E ev \in JsonEvents : JsonDone(ev)

Spec == Init /\ [][Next]_vars

InitPage == \E req \in PageRequests : Start(req)

NextPage ==
    \/ ScrapeNextPage
    \/ ScrapeReturn
    \/ \E ev \in PageListingEvents : ListingDone(ev)
    \/ StartItem
    \/ \E i \in 1..MaxStubs, ev \in PageArticleEvents : ContentDone(i, ev)
    \/ GatherReturn
    \/ GatherRaise

SpecPage == InitPage /\ [][NextPage]_vars


\* ------------------------------------------------------- stating the claims
\* The GETs of listing pages, in the order they were issued.
ListingGets == SelectSeq(gets, LAMBDA g : g.url = search_url)
\* The GETs of articles, in the order they were issued.
ContentGets == SelectSeq(gets, LAMBDA g : g.url \notin {search_url, api_url})

\* A node that lacks a title, a date or a link.
Malformed(stub) ==
    \/ stub.title = None
    \/ stub.date = None \/ stub.date = Some(None)
    \/ stub.link = None \/ stub.link = Some(None)

\* A GET that has ended otherwise than with a response of success status:
\* no answer in time, another transport failure, or an error status.
Failed(ev) ==
    \/ ev.kind \in {"timeout", "transport"}
    \/ ev.kind = "response" /\ ~IsSuccess(ev.status)
AnyFetchFailed ==
    \/ Failed(listing)
    \/ Failed(json_ev)
    \/ \E i \in 1..Len(tasks) : Failed(tasks[i].ev)
AnyTimeout ==
    \/ listing.kind = "timeout"
    \/ \E i \in 1..Len(tasks) : tasks[i].ev.kind = "timeout"

\* The record of a well-formed node and the answer to its content GET.
RecordOf(stub, answer) ==
    parse_item_return(parse_item_fields(stub).val,
                      parse_content(stub.link[1][1], answer).val)
\* The records of one completed page, in the order of its nodes.
PageRecords(p) ==
    [i \in 1..Len(p.stubs) |-> RecordOf(p.stubs[i], p.answers[i])]

RECURSIVE Concatenation(_)
Concatenation(pgs) ==
    IF pgs = <<>> THEN <<>>
    ELSE PageRecords(Head(pgs)) \o Concatenation(Tail(pgs))

\* The listing GETs of pages 1..n for the request's keyword.
ListingGetsUpTo(n) ==
    [k \in 1..n |-> Get(search_url,
                        {<<"query", request.keyword>>, <<"page", k>>},
                        UserAgent, <<k, 0>>)]

\* C1 as stated: a scrape request that has ended and whose fetches all
\* succeeded has issued exactly the listing GETs of pages 1..pages, in
\* increasing order, and has returned the concatenation, in page order, of
\* each page's records in the order of the page's nodes.
C1_AllFetchesSucceed ==
    (request.kind = "scrape" /\ pc = "done" /\ clients = {} /\ ~AnyFetchFailed)
        => /\ ListingGets = ListingGetsUpTo(request.pages)
           /\ outcome = Array(Concatenation(pagesDone))

\* C1 as amended: the same, for a request whose fetches all succeeded and
\* none of whose nodes is malformed.
C1_PagesInOrder ==
    (/\ request.kind = "scrape" /\ pc = "done" /\ clients = {}
     /\ ~AnyFetchFailed
     /\ \A i \in 1..Len(search_results) : ~Malformed(search_results[i]))
        => /\ ListingGets = ListingGetsUpTo(request.pages)
           /\ Len(pagesDone) = request.pages
           /\ outcome = Array(Concatenation(pagesDone))

\* A request for two pages has returned; page 1 had two different nodes
\* and page 2 had some.
C1_Witness ==
    /\ pc = "done" /\ outcome.tag = "array" /\ request.pages = 2
    /\ Len(pagesDone[1].stubs) = 2 /\ Len(pagesDone[2].stubs) >= 1
    /\ pagesDone[1].stubs[1] # pagesDone[1].stubs[2]
    /\ pagesDone[2].stubs[1] # pagesDone[1].stubs[1]


\* C2: when parse returns for a listing page with nodes stub[1..n], the
\* sequence it returns has length n and its i-th record is built from
\* stub[i]: its trimmed title, its href, its date, its description and the
\* content of the answer to the one GET of stub[i]'s url, whatever the order
\* in which the n content fetches completed.
C2_StubOrder ==
    [][(pc = "gather" /\ pc' = "for") =>
        LET result == SubSeq(all_items', Len(all_items) + 1, Len(all_items'))
        IN  /\ Len(result) = Len(search_results)
            /\ \A i \in 1..Len(search_results) :
                 LET stub == search_results[i]
                     url == stub.link[1][1]
                 IN  /\ result[i].title = Strip(stub.title[1])
                     /\ result[i].url = url
                     /\ result[i].date = stub.date[1][1]
                     /\ result[i].desc = IF stub.desc = None THEN NoDescription
                                         ELSE Strip(stub.desc[1])
                     /\ result[i].content = parse_content(url, tasks[i].ev).val
                     /\ \E k \in 1..Len(gets) :
                          gets[k].by = <<page, i>> /\ gets[k].url = url
    ]_vars

\* Every content fetch of a page of two different nodes has returned, the
\* second before the first, and parse is about to return.
C2_Witness ==
    /\ pc = "gather" /\ Len(tasks) = 2
    /\ \A i \in 1..2 : tasks[i].st = "returned"
    /\ completion = <<2, 1>>
    /\ search_results[1] # search_results[2]
    /\ tasks[1].res.val # tasks[2].res.val

\* The content fetches in flight.
ContentClients == {c \in clients : c[2] >= 1}

\* C3: the listing GET of a page is issued only when no fetch, listing or
\* content, is in flight; and at every moment the fetches in flight belong to
\* the current page, so the content fetches in flight are at most the
\* current page's nodes.
C3_PagesSequential ==
    /\ [][(Len(gets') > Len(gets) /\ gets'[Len(gets')].url = search_url) =>
            (clients = {} /\ \A i \in 1..Len(tasks) : tasks[i].st # "fetching")]_vars
    /\ [](/\ \A c \in clients : c[1] = page
          /\ Cardinality(ContentClients) <= Len(search_results))

\* Page 2 has two content fetches in flight after page 1 had two nodes.
C3_Witness ==
    /\ page = 2 /\ Cardinality(ContentClients) = 2
    /\ Len(pagesDone) = 1 /\ Len(pagesDone[1].stubs) = 2

\* The exception of the task that was the first to raise.
FirstRaised ==
    LET ks == {k \in 1..Len(completion) : tasks[completion[k]].st = "raised"}
    IN  tasks[completion[CHOOSE k \in ks : \A j \in ks : k <= j]]

\* The first failure of the request was a fetch that timed out.
TimeoutWasFirst ==
    \/ listing.kind = "timeout"
    \/ /\ \E i \in 1..Len(tasks) : tasks[i].st = "raised"
       /\ FirstRaised.ev.kind = "timeout"

\* C4 as stated: once a fetch of the request has timed out, the request ends
\* with the HTTPException of status 504, returns no array and issues no
\* further listing GET.
C4_TimeoutEnds504 ==
    AnyTimeout =>
        /\ outcome.tag # "array"
        /\ pc = "done" => (/\ outcome.tag = "raised"
                           /\ outcome.exc.cls = "HTTPException"
                           /\ outcome.exc.status_code = TimeoutStatus)
        /\ Len(ListingGets) = page

\* C4 as amended: once a fetch of the request has timed out, the request
\* ends with a failure, returns no array (not even the records of completed
\* pages) and issues no further listing GET; the failure is the
\* HTTPException of status 504 naming the url when the timeout was the
\* first failure of the request, and is the earlier failure otherwise.
C4_TimeoutAborts ==
    AnyTimeout =>
        /\ outcome.tag # "array"
        /\ pc \in {"gather", "done"}
        /\ pc = "gather" => gather_exc # None
        /\ pc = "done" => outcome.tag = "raised"
        /\ (pc = "done" /\ TimeoutWasFirst) =>
              /\ outcome.exc.cls = "HTTPException"
              /\ outcome.exc.status_code = 504
              /\ outcome.exc.url # ""
        /\ (pc = "done" /\ ~TimeoutWasFirst) => outcome.exc = FirstRaised.res.exc
        /\ Len(ListingGets) = page

\* Page 1 has completed with records, a content fetch of page 2 has timed
\* out as the first failure, and the request has ended.
C4_Witness ==
    /\ pc = "done" /\ page = 2 /\ all_items # <<>>
    /\ listing.kind = "response" /\ AnyTimeout /\ TimeoutWasFirst


\* The answer was a response whose status is not a success status.
ErrorStatus(ev) == ev.kind = "response" /\ ~IsSuccess(ev.status)

\* C5: a fetch whose upstream response has a non-success status fails with
\* the HTTPException of that status instead of returning the body: the
\* listing or trending fetch ends the request with that status, and the
\* content fetch makes its task raise it.
C5_StatusFails ==
    /\ ErrorStatus(listing) =>
          /\ pc = "done"
          /\ outcome = Failure(Exc("HTTPException", listing.status, search_url))
    /\ ErrorStatus(json_ev) =>
          /\ outcome.tag = "raised"
          /\ outcome.exc.cls = "HTTPException"
          /\ outcome.exc.status_code = json_ev.status
    /\ \A i \in 1..Len(tasks) :
          ErrorStatus(tasks[i].ev) =>
              /\ tasks[i].st = "raised"
              /\ tasks[i].res.exc.cls = "HTTPException"
              /\ tasks[i].res.exc.status_code = tasks[i].ev.status

\* The GETs of the request that have ended, as <<url, answer>>.
Answers ==
    {<<search_url, listing>>, <<api_url, json_ev>>}
        \cup {<<search_results[i].link[1][1], tasks[i].ev>> :
                 i \in {j \in 1..Len(tasks) : tasks[j].ev.kind # "none"}}

\* An array of ScrapeResult records, or of keyword strings.
WellFormedArray(body) ==
    \A k \in 1..Len(body) :
        IF request.kind = "scrape"
        THEN DOMAIN body[k] = {"title", "url", "date", "desc", "content"}
        ELSE body[k].type = "string"

\* A classified failure: an HTTPException with an error status whose detail
\* names a url.
Classified(e) == e.cls = "HTTPException" /\ e.status_code >= 400 /\ e.url # ""

\* C6 as stated: a request that has ended has given its caller a
\* well-formed array or a classified upstream failure, and nothing else.
C6_ArrayOrClassified ==
    pc = "done" =>
        \/ outcome.tag = "array" /\ WellFormedArray(outcome.body)
        \/ outcome.tag = "raised" /\ Classified(outcome.exc)

\* C6 as amended: a request that has not ended can take a step and has given
\* its caller nothing; one that has ended has given exactly one of a
\* well-formed array, a classified upstream failure (naming the url of a
\* fetch of the request, with status 504 if that fetch timed out and else
\* the error status of its response), or an unclassified internal error: a
\* transport error other than a timeout, the AttributeError / KeyError of
\* a malformed node, or the error of a feed that is not JSON or not of the
\* expected shape.
C6_Outcomes ==
    /\ pc # "done" => (outcome = Pending /\ ENABLED Next)
    /\ pc = "done" =>
        \/ outcome.tag = "array" /\ WellFormedArray(outcome.body)
        \/ /\ outcome.tag = "raised" /\ Classified(outcome.exc)
           /\ \E a \in Answers :
                 /\ a[1] = outcome.exc.url
                 /\ \/ a[2].kind = "timeout" /\ outcome.exc.status_code = 504
                    \/ ErrorStatus(a[2]) /\ outcome.exc.status_code = a[2].status
        \/ /\ outcome.tag = "raised" /\ ~Classified(outcome.exc)
           /\ outcome.exc.url = ""
           /\ \/ /\ outcome.exc.cls = "TransportError"
                 /\ \/ listing.kind = "transport" \/ json_ev.kind = "transport"
                    \/ \E i \in 1..Len(tasks) : tasks[i].ev.kind = "transport"
              \/ /\ outcome.exc.cls \in {"AttributeError", "KeyError"}
                 /\ request.kind = "scrape"
                 /\ \E i \in 1..Len(search_results) : Malformed(search_results[i])
              \/ /\ outcome.exc.cls = "KeyError"
                 /\ request.kind = "trending" /\ json_ev.kind = "response"
              \/ /\ outcome.exc.cls \in {"JSONDecodeError", "TypeError"}
                 /\ request.kind = "trending" /\ json_ev.kind = "response"

\* A scrape request has ended with the unclassified error of a malformed
\* node after a page that completed.
C6_Witness ==
    /\ pc = "done" /\ request.kind = "scrape" /\ page = 2
    /\ outcome = Failure(Exc("AttributeError", 0, ""))

\* The number of nodes of the completed pages before page p.
RECURSIVE Offset(_)
Offset(p) == IF p <= 1 THEN 0 ELSE Offset(p - 1) + Len(pagesDone[p - 1].stubs)
TotalStubs == Offset(Len(pagesDone) + 1)

\* C7: no GET is issued twice for the same listing page or node; a task has
\* a record only once the response to its content GET is there; and a
\* returned list holds, for each page 1..pages in turn and each node of it
\* in turn, exactly one record, for whose url exactly one content GET was
\* issued.
C7_OneRecordPerStub ==
    /\ \A j, k \in 1..Len(gets) : gets[j].by = gets[k].by => j = k
    /\ \A i \in 1..Len(tasks) :
          /\ tasks[i].st \in {"created", "fetching"} => tasks[i].res = NoResult
          /\ tasks[i].st = "returned" =>
                /\ tasks[i].ev.kind = "response"
                /\ <<page, i>> \notin clients
                /\ \E k \in 1..Len(gets) : gets[k].by = <<page, i>>
    /\ Len(all_items) = TotalStubs
    /\ (request.kind = "scrape" /\ outcome.tag = "array") =>
          /\ Len(pagesDone) = request.pages
          /\ Len(outcome.body) = TotalStubs
          /\ Len(ContentGets) = TotalStubs
          /\ \A p \in 1..Len(pagesDone) : \A i \in 1..Len(pagesDone[p].stubs) :
                /\ pagesDone[p].answers[i].kind = "response"
                /\ outcome.body[Offset(p) + i].url = pagesDone[p].stubs[i].link[1][1]
                /\ outcome.body[Offset(p) + i].date = pagesDone[p].stubs[i].date[1][1]
                /\ Cardinality({k \in 1..Len(gets) :
                                   /\ gets[k].by = <<p, i>>
                                   /\ gets[k].url = pagesDone[p].stubs[i].link[1][1]}) = 1

\* A request for two pages has returned four records.
C7_Witness ==
    /\ pc = "done" /\ outcome.tag = "array" /\ request.pages = 2
    /\ Len(outcome.body) = 4
    /\ outcome.body[1] # outcome.body[2] /\ outcome.body[3] # outcome.body[4]

\* The listing response has no text, or no article node.
EmptyListing(ev) ==
    ev.kind = "response" /\ (ev.body.empty \/ ev.body.articles = <<>>)

\* C8: when the listing fetch of a page ends with a response that has no
\* text or no article node, parse returns the empty sequence: the request
\* does not fail, no content GET is issued, all_items is unchanged, and scrape
\* is back in its loop, whose next step, if pages remain, is the listing GET
\* of the next page.
C8_EmptyPage ==
    /\ [][(pc = "fetch_listing" /\ EmptyListing(listing')) =>
            /\ pc' = "for"
            /\ outcome' = Pending
            /\ all_items' = all_items
            /\ gets' = gets
            /\ tasks' = <<>>
            /\ pagesDone' = Append(pagesDone, [stubs |-> <<>>, answers |-> <<>>])
         ]_vars
    /\ [][(pc = "for" /\ page < request.pages) =>
            /\ pc' = "fetch_listing"
            /\ gets' = Append(gets, ListingGetsUpTo(page + 1)[page + 1])
         ]_vars

\* The listing fetch of page 1 of 2 has ended with a response without text
\* and scrape is back in its loop.
C8_Witness ==
    /\ pc = "for" /\ page = 1 /\ request.pages = 2
    /\ listing.kind = "response" /\ listing.body.empty
    /\ outcome = Pending


\* The length of the first k paragraphs, each followed by a separator.
RECURSIVE Before(_, _)
Before(ps, k) == IF k = 0 THEN 0 ELSE Before(ps, k - 1) + Len(ps[k]) + 1

\* c is the paragraphs ps in document order, joined by newlines.
NewlineJoined(ps, c) ==
    /\ Len(c) = Before(ps, Len(ps)) - 1
    /\ \A k \in 1..Len(ps) :
          /\ SubSeq(c, Before(ps, k - 1) + 1, Before(ps, k) - 1) = ps[k]
          /\ k < Len(ps) => c[Before(ps, k)] = "\n"

\* C9: a task whose content fetch got a response of success status returns
\* (no paragraph is not a failure), and the content of a task that returns is
\* the paragraphs joined by newlines in document order when there is one at
\* least, and the text "No content available." when there is none, never
\* the empty text.
C9_Content ==
    \A i \in 1..Len(tasks) :
        /\ (tasks[i].ev.kind # "none" /\ ~Failed(tasks[i].ev)) => tasks[i].st = "returned"
        /\ tasks[i].st = "returned" =>
               LET ps == tasks[i].ev.body.paragraphs
                   c == tasks[i].res.val.content
               IN  IF ps = <<>>
                   THEN /\ c = << "N","o"," ","c","o","n","t","e","n","t"," ",
                                  "a","v","a","i","l","a","b","l","e","." >>
                        /\ c # <<>>
                   ELSE NewlineJoined(ps, c)

\* One task has returned the content of an article of two paragraphs and
\* another that of an article without paragraph.
C9_Witness ==
    \E i, j \in 1..Len(tasks) :
        /\ tasks[i].st = "returned" /\ tasks[j].st = "returned"
        /\ Len(tasks[i].ev.body.paragraphs) = 2
        /\ tasks[i].res.val.content = <<"p", " ", "\n", "q">>
        /\ tasks[j].ev.body.paragraphs = <<>>

\* out is raw without its leading and trailing white space.
Trimmed(raw, out) ==
    \E a \in 0..Len(raw) : \E b \in a..Len(raw) :
        /\ out = SubSeq(raw, a + 1, b)
        /\ \A k \in (1..a) \cup ((b + 1)..Len(raw)) : raw[k] \in {" ", "\n", "\t"}
        /\ out # <<>> => /\ out[1] \notin {" ", "\n", "\t"}
                         /\ out[Len(out)] \notin {" ", "\n", "\t"}

\* C10: a node without description element does not make its task raise
\* for that; the desc of a returned record is the trimmed text of the
\* description element when there is one and "No description" when there
\* is none.
C10_Desc ==
    \A i \in 1..Len(tasks) :
        LET stub == search_results[i]
        IN  /\ (tasks[i].st = "raised" /\ tasks[i].ev.kind = "none") => Malformed(stub)
            /\ (tasks[i].st = "raised" /\ tasks[i].ev.kind # "none") => Failed(tasks[i].ev)
            /\ tasks[i].st = "returned" =>
                  IF stub.desc = None
                  THEN tasks[i].res.val.desc =
                          <<"N","o"," ","d","e","s","c","r","i","p","t","i","o","n">>
                  ELSE Trimmed(stub.desc[1], tasks[i].res.val.desc)

\* One task has returned a record for a node without description and
\* another for a node whose description had white space around it.
C10_Witness ==
    \E i, j \in 1..Len(tasks) :
        /\ tasks[i].st = "returned" /\ tasks[j].st = "returned"
        /\ search_results[i].desc = None
        /\ search_results[j].desc # None
        /\ tasks[j].res.val.desc = <<"b", " ", "c">>

\* The payload the trending GET was answered with.
Payload == json_ev.body.val
\* The payload has the path body.topKeywordSearch.
HasFeedPath(j) ==
    /\ j.type = "object" /\ "body" \in DOMAIN j.val
    /\ j.val.body.type = "object"
    /\ "topKeywordSearch" \in DOMAIN j.val.body.val
\* The feed of a payload that has the path.
Feed(j) == j.val.body.val.topKeywordSearch.val
\* Every entry of the feed has a keyword field.
AllKeyed(feed) ==
    \A k \in 1..Len(feed) :
        feed[k].type = "object" /\ "keyword" \in DOMAIN feed[k].val
\* The trending request has ended and its GET was answered with JSON.
TrendingAnswered ==
    /\ request.kind = "trending" /\ pc = "done"
    /\ json_ev.kind = "response" /\ json_ev.body.json

\* C11 as stated: a trending request whose GET was answered returns the
\* empty array, and does not fail, when the payload is null or lacks body
\* or body.topKeywordSearch; otherwise it returns the keyword of every
\* entry of the feed, as many as the feed has and in the feed's order,
\* equal keywords kept.
C11_Trending ==
    TrendingAnswered =>
        IF ~HasFeedPath(Payload)
        THEN outcome.tag = "array" /\ outcome.body = <<>>
        ELSE AllKeyed(Feed(Payload)) =>
                /\ outcome.tag = "array"
                /\ Len(outcome.body) = Len(Feed(Payload))
                /\ \A k \in 1..Len(outcome.body) :
                      outcome.body[k] = Feed(Payload)[k].val.keyword

\* C11, what holds beside the divergence: the same, for every payload but
\* the one whose body is null, where the request fails with a TypeError.
C11_TrendingBodyNotNull ==
    TrendingAnswered =>
        IF Payload.type = "object" /\ "body" \in DOMAIN Payload.val
           /\ Payload.val.body.type = "null"
        THEN outcome.tag = "raised" /\ outcome.exc.cls = "TypeError"
        ELSE C11_Trending

\* A feed with the same keyword twice has been returned as two keywords.
C11_Duplicates ==
    /\ TrendingAnswered /\ HasFeedPath(Payload)
    /\ outcome.tag = "array" /\ Len(outcome.body) = 2
    /\ outcome.body[1] = outcome.body[2]

\* A node without title element, without link element, or whose link has
\* no href.
NoTitleOrLink(stub) ==
    stub.title = None \/ stub.link = None \/ stub.link = Some(None)
\* ... in the page being parsed.
NoTitleOrLinkInPage ==
    \E i \in 1..Len(search_results) : NoTitleOrLink(search_results[i])

\* C12: a page with a node that lacks its title or its link never
\* completes: no page whose records were taken contains such a node, and
\* while such a page is being parsed nothing of it is added to all_items,
\* no array is returned, and the request ends with the failure of a read
\* (AttributeError or KeyError), which is raised before any fetch of the
\* page has ended, never with records.  An
\* array that is returned is the records of the completed pages' nodes,
\* one each.
C12_MalformedFailsPage ==
    /\ \A p \in 1..Len(pagesDone) : \A i \in 1..Len(pagesDone[p].stubs) :
          ~NoTitleOrLink(pagesDone[p].stubs[i])
    /\ NoTitleOrLinkInPage =>
          /\ pc \in {"gather", "done"}
          /\ all_items = Concatenation(pagesDone)
          /\ outcome.tag # "array"
          /\ pc = "done" =>
                /\ outcome.tag = "raised"
                /\ outcome.exc.cls \in {"AttributeError", "KeyError"}
    /\ outcome.tag = "array" =>
          /\ outcome.body = Concatenation(pagesDone)
          /\ Len(outcome.body) = TotalStubs

\* The request has failed on a page where one node has no link element
\* and another, well formed, has had its content fetched and its record
\* built.
C12_Witness ==
    /\ pc = "done" /\ outcome.tag = "raised"
    /\ \E i, j \in 1..Len(tasks) :
          /\ search_results[i].link = None
          /\ tasks[j].st = "returned"

\* C13: while a task of the page has yet to start, no content fetch of the
\* page has ended, so no task waits for another's fetch before it issues
\* its own; parse returns, and all_items grows, only when every task has
\* returned, by one record for each node; and once a task has raised,
\* parse never returns: all_items stays as it is and the request ends with
\* the exception of the task that raised first.
C13_GatherTogether ==
    /\ []((\E i \in 1..Len(tasks) : tasks[i].st = "created") =>
             \A j \in 1..Len(tasks) : tasks[j].ev.kind = "none")
    /\ [][(pc = "gather" /\ pc' = "for") =>
             /\ \A i \in 1..Len(tasks) : tasks[i].st = "returned"
             /\ Len(all_items') = Len(all_items) + Len(search_results)]_vars
    /\ [][all_items' # all_items => pc = "gather" /\ pc' = "for"]_vars
    /\ [][(pc = "gather" /\ \E i \in 1..Len(tasks) : tasks[i].st = "raised") =>
             /\ pc' \in {"gather", "done"}
             /\ all_items' = all_items
             /\ outcome'.tag # "array"
             /\ pc' = "done" => outcome' = Failure(FirstRaised.res.exc)]_vars

\* The request has failed with the timeout of the second node's fetch,
\* which ended before the first node's fetch, which then succeeded and
\* whose record is not returned.
C13_Witness ==
    /\ pc = "done" /\ Len(tasks) = 2
    /\ completion = <<2, 1>>
    /\ tasks[2].st = "raised" /\ tasks[2].ev.kind = "timeout"
    /\ tasks[1].st = "returned"
    /\ outcome.tag = "raised" /\ outcome.exc.status_code = TimeoutStatus
    /\ all_items = <<>>

\* The request has ended with a failure.
Aborted == pc = "done" /\ outcome.tag = "raised"

\* C14: nothing but the end of its own GET takes a task out of its fetch:
\* in every step a task that is fetching either is still fetching, with
\* its client open, or has ended with the answer to its GET (a response,
\* its own timeout or a transport failure), whatever else has failed and
\* also after the failure has been raised to the caller; and a task that
\* is fetching can always go on to its end, also once the request has been
\* aborted.
C14_SiblingsRunOn ==
    /\ [][\A i \in 1..Len(tasks) : tasks[i].st = "fetching" =>
             /\ Len(tasks') = Len(tasks)
             /\ \/ tasks'[i].st = "fetching" /\ <<page', i>> \in clients'
                \/ /\ tasks'[i].st \in {"returned", "raised"}
                   /\ tasks'[i].ev.kind \in {"response", "timeout", "transport"}
                   /\ \A j \in 1..Len(tasks) : j # i => tasks'[j] = tasks[j]]_vars
    /\ [](\A i \in 1..Len(tasks) : (tasks[i].st = "fetching" /\ AllStarted) =>
             \A ev \in {Timeout, Response(200, ArticleTwo)} :
                ENABLED ContentDone(i, ev))

\* The request has been aborted by the timeout of one node's fetch while
\* the fetch of the other node is still in flight.
C14_Witness ==
    /\ Aborted
    /\ \E i, j \in 1..Len(tasks) :
          /\ tasks[i].st = "raised" /\ tasks[i].ev.kind = "timeout"
          /\ tasks[j].st = "fetching" /\ <<page, j>> \in clients

\* The fetches in flight: the listing fetch of the current page, the
\* trending fetch, and the content fetches of the tasks that are fetching.
InFlight ==
    {<<page, i>> : i \in {k \in 1..Len(tasks) : tasks[k].st = "fetching"}}
        \cup (IF pc = "fetch_listing" THEN {<<page, 0>>} ELSE {})
        \cup (IF pc = "fetch_json" THEN {<<0, 0>>} ELSE {})

\* C15: every GET is issued on a client opened for it, which was not open
\* before; the clients open are at every moment exactly those of the
\* fetches in flight, one for each, so a fetch that has ended, however it
\* ended, has released its client, and when no fetch is in flight, also
\* after the request was aborted, no client is open.
C15_OwnClient ==
    /\ [][Len(gets') > Len(gets) =>
             /\ gets' = Append(gets, gets'[Len(gets')])
             /\ gets'[Len(gets')].by \notin clients
             /\ clients' = clients \cup {gets'[Len(gets')].by}]_vars
    /\ [][clients' \subseteq clients \/ Len(gets') > Len(gets)]_vars
    /\ [](/\ clients = InFlight
          /\ \A c \in clients :
                Cardinality({k \in 1..Len(gets) : gets[k].by = c}) = 1)

\* A request aborted by the timeout of a content fetch, whose two content
\* fetches and listing fetches have all ended: no client is open.
C15_Witness ==
    /\ Aborted /\ clients = {}
    /\ Len(tasks) = 2 /\ Len(gets) >= 3
    /\ \A i \in 1..2 : tasks[i].ev.kind \in {"response", "timeout"}
    /\ \E i \in 1..2 : tasks[i].ev.kind = "timeout"

\* A GET of the request has ended with an exception.
Raising(ev) == ev.kind \in {"timeout", "transport"}
FetchRaised ==
    \/ Raising(listing)
    \/ Raising(json_ev)
    \/ \E i \in 1..Len(tasks) : Raising(tasks[i].ev)

\* C16: no two GETs of a request are for the same fetch (the listing of a
\* page, the content of a node of a page, the trending feed), so each
\* fetch issues one GET; once a GET has ended with an exception the
\* request issues no further GET; and the exception is passed on as
\* fetch_page raised it: it is the result of the node's task, the request
\* ends with the exception of the listing fetch, or of the task that
\* raised first, and never with an array.
C16_NoRetry ==
    /\ [](\A k, l \in 1..Len(gets) : gets[k].by = gets[l].by => k = l)
    /\ [][FetchRaised => gets' = gets]_vars
    /\ [](Raising(listing) =>
             /\ pc = "done"
             /\ outcome = Failure(fetch_page(search_url, listing).exc))
    /\ [](Raising(json_ev) =>
             /\ pc = "done"
             /\ outcome = Failure(fetch_json(api_url, json_ev).exc))
    /\ [](\A i \in 1..Len(tasks) : Raising(tasks[i].ev) =>
             /\ tasks[i].st = "raised"
             /\ tasks[i].res = fetch_page(search_results[i].link[1][1],
                                          tasks[i].ev)
             /\ pc \in {"gather", "done"}
             /\ outcome.tag # "array"
             /\ pc = "done" => outcome = Failure(FirstRaised.res.exc))

\* The request was aborted on page 2 by the timeout of the first node's
\* content fetch, for which one GET was issued; every fetch has ended.
C16_Witness ==
    /\ Aborted /\ page = 2 /\ clients = {}
    /\ Len(tasks) >= 1 /\ tasks[1].ev.kind = "timeout"
    /\ Cardinality({k \in 1..Len(gets) : gets[k].by = <<2, 1>>}) = 1

\* A node without date element, or whose date element has no title
\* attribute.
NoDate(stub) == stub.date = None \/ stub.date = Some(None)

\* C17: a page with a node that lacks its date, or the date's title
\* attribute, fails as one with a node that lacks its title or link: no
\* completed page contains such a node, no array is returned while such a
\* page is being parsed and the request ends with the failure of a read;
\* the task of a node malformed in title, date or link raises at its
\* reads, AttributeError for an absent element and KeyError for an absent
\* attribute, without an answer to any GET, and no GET is ever issued for
\* that node; and every record built or returned has the date read from
\* its node.
C17_DateReadBeforeFetch ==
    /\ \A p \in 1..Len(pagesDone) : \A i \in 1..Len(pagesDone[p].stubs) :
          ~Malformed(pagesDone[p].stubs[i])
    /\ (\E i \in 1..Len(search_results) : NoDate(search_results[i])) =>
          /\ pc \in {"gather", "done"}
          /\ all_items = Concatenation(pagesDone)
          /\ outcome.tag # "array"
          /\ pc = "done" =>
                /\ outcome.tag = "raised"
                /\ outcome.exc.cls \in {"AttributeError", "KeyError"}
    /\ \A i \in 1..Len(tasks) :
          LET stub == search_results[i]
          IN  IF Malformed(stub)
              THEN /\ tasks[i].st \in {"created", "raised"}
                   /\ tasks[i].ev.kind = "none"
                   /\ \A k \in 1..Len(gets) : gets[k].by # <<page, i>>
                   /\ <<page, i>> \notin clients
                   /\ tasks[i].st = "raised" =>
                         tasks[i].res.exc.cls =
                            IF \/ stub.title = None
                               \/ stub.title # None /\ stub.date = None
                               \/ ~NoDate(stub) /\ stub.link = None
                            THEN "AttributeError" ELSE "KeyError"
              ELSE /\ tasks[i].st # "created" =>
                         \E k \in 1..Len(gets) :
                            /\ gets[k].by = <<page, i>>
                            /\ gets[k].url = stub.link[1][1]
                   /\ tasks[i].st = "returned" =>
                         tasks[i].res.val.date = stub.date[1][1]
    /\ outcome.tag = "array" =>
          \A p \in 1..Len(pagesDone) : \A i \in 1..Len(pagesDone[p].stubs) :
             outcome.body[Offset(p) + i].date = pagesDone[p].stubs[i].date[1][1]

\* The request has failed on a page whose first node is well formed and
\* has had its content fetched, and whose second node has a date element
\* without title attribute: one GET for the listing, one for the first
\* node, none for the second.
C17_Witness ==
    /\ Aborted /\ Len(tasks) = 2
    /\ search_results[2].date = Some(None)
    /\ tasks[1].st = "returned"
    /\ tasks[2].st = "raised" /\ tasks[2].res.exc.cls = "KeyError"
    /\ Len(gets) = 2 /\ gets[2].by = <<1, 1>>

====
